---- MODULE Spec2Model ----
(***************************************************************************)
(* A model of src/src/main.rs: the ONVIF service binder (Device::new) and  *)
(* the PTZ motion helpers (get_profile_token, send_continuous_ptz,          *)
(* send_stop_ptz, send_relative_ptz, translate_recenter).                   *)
(*                                                                          *)
(* Strings that the code inspects character by character (URLs) are        *)
(* sequences of chunks: every chunk is a fixed run of characters, no chunk  *)
(* is a prefix of another, so "starts_with" on the characters is the        *)
(* prefix relation on the chunks.                                           *)
(* f64 values are exact rationals, +inf, -inf or NaN.                      *)
(***************************************************************************)
EXTENDS Integers, Sequences, FiniteSets, TLC

VARIABLES
    url,             \* Device::new argument: Option<Url>
    usr,             \* Device::new argument: Option<String>
    pwd,             \* Device::new argument: Option<String>
    creds,           \* local of Device::new
    device_mgmt_uri, \* local of Device::new
    out,             \* local of Device::new: the Device under construction
    services,        \* local of Device::new: services.service
    idx,             \* position of the for loop in services.service (1-based)
    result,          \* value returned by Device::new
    device,          \* main's device, the unwrapped result
    op,              \* the operation the caller invoked on the device
    fn,              \* the send_* function the flow is in
    args,            \* arguments of the operation: x, y, rect_width, rect_height or pan, tilt, zoom
    pan,             \* pan as passed to the send_* function
    tilt,            \* tilt as passed to the send_* function
    zoom,            \* zoom as passed to the send_* function
    time,            \* local of translate_recenter: milliseconds to sleep
    profile_token,   \* value returned by get_profile_token
    response,        \* get_profile_token: the profiles of the response, until the command is sent
    inflight,        \* remote calls sent and not yet answered
    log,             \* what the transport and the timer saw since the operation started
    panic,           \* message of the panic that ended the flow, if any
    pc               \* position of the single flow of control

vars == <<url, usr, pwd, creds, device_mgmt_uri, out, services, idx, result, device,
          op, fn, args, pan, tilt, zoom, time, profile_token, response, inflight, log,
          panic, pc>>

bindVars == <<url, usr, pwd, creds, device_mgmt_uri, out, services, idx, result>>
motionVars == <<op, fn, args, pan, tilt, zoom, time, profile_token, response>>

----------------------------------------------------------------------------
(* Bounds of the model *)

MaxServices == 2   \* longest discovery response
MaxProfiles == 2   \* longest get_profiles response
MaxCoord == 1      \* largest |x| and |y|
MaxDim == 2        \* largest rect_width and rect_height

----------------------------------------------------------------------------
(* Option<T> *)

None == [some |-> FALSE]
Some(v) == [some |-> TRUE, val |-> v]

----------------------------------------------------------------------------
(* URLs and the url crate *)

\* scheme and authority chunks, and their serialisation by Url (lower case)
Authorities == {"http://h", "HTTP://H", "http://e"}

Lower(c) == IF c = "HTTP://H" THEN "http://h" ELSE c

\* position of the first "/" chunk of s, Len(s) + 1 when there is none
RECURSIVE FirstSlash(_, _)
FirstSlash(s, k) ==
    IF k > Len(s) THEN k
    ELSE IF s[k] = "/" THEN k
    ELSE FirstSlash(s, k + 1)

\* position of the last "/" chunk of s, 0 when there is none
RECURSIVE LastSlash(_, _)
LastSlash(s, k) ==
    IF k = 0 THEN 0
    ELSE IF s[k] = "/" THEN k
    ELSE LastSlash(s, k - 1)

ParseError == <<>>

\* Url::parse(s) followed by as_str(): ParseError for a string with no
\* scheme (a relative URL without a base), else the scheme and host in lower
\* case and the path, "/" when the string has none.
UrlParse(s) ==
    IF s = <<>> \/ s[1] \notin Authorities THEN ParseError
    ELSE LET k == FirstSlash(s, 1)
             auth == [j \in 1..(k - 1) |-> Lower(s[j])]
             path == SubSeq(s, k, Len(s))
         IN  auth \o (IF path = <<>> THEN <<"/">> ELSE path)

\* Url::join: the reference replaces what follows the last "/" of the base
UrlJoin(base, ref) == SubSeq(base, 1, LastSlash(base, Len(base))) \o ref

\* str::starts_with
StartsWith(s, p) == Len(p) <= Len(s) /\ SubSeq(s, 1, Len(p)) = p

DeviceServicePath == <<"onvif", "/", "device_service">>

\* base URLs the caller may pass (already parsed, so serialised by Url)
BaseUrls == { <<"http://h", "/">>, <<"http://h", "/", "cam">> }

\* x_addr strings a device may advertise
XAddrs == {
    <<"http://h", "/", "onvif", "/", "device_service">>,
    <<"HTTP://H", "/", "onvif", "/", "device_service">>,
    <<"http://h", "/", "onvif", "/", "ptz">>,
    <<"http://h", "/", "cam", "/", "ptz">>,
    <<"http://e", "/", "onvif", "/", "ptz">>,
    <<"onvif", "/", "ptz">> }

NsDevice == "http://www.onvif.org/ver10/device/wsdl"
NsMedia == "http://www.onvif.org/ver10/media/wsdl"
NsPtz == "http://www.onvif.org/ver20/ptz/wsdl"
NsOther == "http://www.onvif.org/ver20/imaging/wsdl"
Namespaces == {NsDevice, NsMedia, NsPtz, NsOther}

Service == [namespace : Namespaces, x_addr : XAddrs]

RECURSIVE SeqsUpTo(_, _)
SeqsUpTo(S, n) ==
    IF n = 0 THEN { <<>> }
    ELSE LET shorter == SeqsUpTo(S, n - 1)
         IN  shorter \cup { Append(q, e) : q \in shorter, e \in S }

\* the discovery responses the device may give
ServiceLists == SeqsUpTo(Service, MaxServices)

----------------------------------------------------------------------------
(* Device::new *)

\* the Err(String) values Device::new returns
ConfigError == "uri must be specified"
AddressError == "relative URL without a base"
TrustBoundaryError == "Service URI is not within base URI"
ConsistencyError == "advertised device mgmt uri not expected"

Ok(v) == [ok |-> TRUE, val |-> v]
Err(e) == [ok |-> FALSE, err |-> e]
NoResult == [ok |-> FALSE, err |-> "none"]

Client(uri, cr) == [uri |-> uri, credentials |-> cr]
NoClient == Client(<<>>, None)
NoDevice == [device_mgmt |-> NoClient, media |-> None, ptz |-> None]

Credentials(u, p) == [username |-> u, password |-> p]

Usernames == {None, Some("test")}
Passwords == {None, Some("test123")}

\* one remote call: the operation, the client's endpoint and the request
Call(name, client, req) == [op |-> name, to |-> client.uri, req |-> req]
NoRequest == [none |-> TRUE]

\* an entry of the log: ev is "send", "ok", "err", "start" or "fire"
Event(ev, call) == [ev |-> ev, call |-> call]

Init ==
    /\ url \in {None} \cup {Some(b) : b \in BaseUrls}
    /\ usr \in Usernames
    /\ pwd \in Passwords
    /\ creds = None
    /\ device_mgmt_uri = <<>>
    /\ out = NoDevice
    /\ services = <<>>
    /\ idx = 1
    /\ result = NoResult
    /\ device = NoDevice
    /\ op = "none"
    /\ fn = "none"
    /\ args = [x |-> 0, y |-> 0, rect_width |-> 0, rect_height |-> 0]
    /\ pan = [n |-> 0, d |-> 1]
    /\ tilt = [n |-> 0, d |-> 1]
    /\ zoom = [n |-> 0, d |-> 1]
    /\ time = 0
    /\ profile_token = ""
    /\ response = <<>>
    /\ inflight = {}
    /\ log = <<>>
    /\ panic = ""
    /\ pc = "new"

Panic(msg) ==
    /\ panic' = msg
    /\ pc' = "panicked"

\* lines 18-25: the match on (usr, pwd)
NewCreds ==
    /\ pc = "new"
    /\ IF usr.some /\ pwd.some
       THEN /\ creds' = Some(Credentials(usr.val, pwd.val))
            /\ pc' = "base"
            /\ UNCHANGED panic
       ELSE IF ~usr.some /\ ~pwd.some
       THEN /\ creds' = None
            /\ pc' = "base"
            /\ UNCHANGED panic
       ELSE /\ Panic("Username and password must be specified together")
            /\ UNCHANGED creds
    /\ UNCHANGED <<url, usr, pwd, device_mgmt_uri, out, services, idx, result,
                   device, motionVars, inflight, log>>

\* lines 27-37: base_uri, device_mgmt_uri and the Device with its device_mgmt client
NewBase ==
    /\ pc = "base"
    /\ IF ~url.some
       THEN /\ result' = Err(ConfigError)
            /\ pc' = "returned"
            /\ UNCHANGED <<device_mgmt_uri, out>>
       ELSE /\ device_mgmt_uri' = UrlJoin(url.val, DeviceServicePath)
            /\ out' = [device_mgmt |-> Client(device_mgmt_uri', creds),
                       media |-> None, ptz |-> None]
            /\ pc' = "get_services"
            /\ UNCHANGED result
    /\ UNCHANGED <<url, usr, pwd, creds, services, idx, device, motionVars,
                   inflight, log, panic>>

\* lines 39-42: get_services is sent on the device_mgmt client
GetServicesSend ==
    /\ pc = "get_services"
    /\ LET c == Call("get_services", out.device_mgmt, NoRequest)
       IN  /\ inflight' = inflight \cup {c}
           /\ log' = Append(log, Event("send", c))
    /\ pc' = "get_services_wait"
    /\ UNCHANGED <<bindVars, device, motionVars, panic>>

\* lines 39-43: block_on returns the response, unwrap takes it
GetServicesOk ==
    /\ pc = "get_services_wait"
    /\ \E c \in inflight, r \in ServiceLists :
          /\ c.op = "get_services"
          /\ inflight' = inflight \ {c}
          /\ log' = Append(log, Event("ok", c))
          /\ services' = r
    /\ idx' = 1
    /\ pc' = "loop"
    /\ UNCHANGED <<url, usr, pwd, creds, device_mgmt_uri, out, result, device,
                   motionVars, panic>>

\* lines 39-43: block_on returns an error, unwrap panics
GetServicesErr ==
    /\ pc = "get_services_wait"
    /\ \E c \in inflight :
          /\ c.op = "get_services"
          /\ inflight' = inflight \ {c}
          /\ log' = Append(log, Event("err", c))
    /\ Panic("called Result::unwrap() on an Err value")
    /\ UNCHANGED <<bindVars, device, motionVars>>

\* lines 46-72: the body of the for loop for one service s, on the Device o
\* under construction: the Device after it, or the error returned
WithinBaseUnchecked(u, base) == TRUE

WithinBase(u, base) == StartsWith(u, base)

\* the media arm missing
DispatchNoMedia(o, s, u, cr, dm) ==
    CASE s.namespace = NsDevice ->
             IF s.x_addr # dm THEN Err(ConsistencyError) ELSE Ok(o)
      [] s.namespace = NsPtz -> Ok([o EXCEPT !.ptz = Some(Client(u, cr))])
      [] OTHER -> Ok(o)

\* a client once recorded is kept
DispatchFirstWins(o, s, u, cr, dm) ==
    CASE s.namespace = NsDevice ->
             IF s.x_addr # dm THEN Err(ConsistencyError) ELSE Ok(o)
      [] s.namespace = NsMedia ->
             Ok(IF o.media.some THEN o ELSE [o EXCEPT !.media = Some(Client(u, cr))])
      [] s.namespace = NsPtz ->
             Ok(IF o.ptz.some THEN o ELSE [o EXCEPT !.ptz = Some(Client(u, cr))])
      [] OTHER -> Ok(o)

\* the device management arm compares the parsed address
DispatchParsedCheck(o, s, u, cr, dm) ==
    CASE s.namespace = NsDevice ->
             IF u # dm THEN Err(ConsistencyError) ELSE Ok(o)
      [] s.namespace = NsMedia -> Ok([o EXCEPT !.media = Some(Client(u, cr))])
      [] s.namespace = NsPtz -> Ok([o EXCEPT !.ptz = Some(Client(u, cr))])
      [] OTHER -> Ok(o)

\* an unknown namespace is an error
DispatchStrict(o, s, u, cr, dm) ==
    CASE s.namespace = NsDevice ->
             IF s.x_addr # dm THEN Err(ConsistencyError) ELSE Ok(o)
      [] s.namespace = NsMedia -> Ok([o EXCEPT !.media = Some(Client(u, cr))])
      [] s.namespace = NsPtz -> Ok([o EXCEPT !.ptz = Some(Client(u, cr))])
      [] OTHER -> Err("unknown namespace")

Dispatch(o, s, u, cr, dm) ==
    CASE s.namespace = NsDevice ->
             IF s.x_addr # dm THEN Err(ConsistencyError) ELSE Ok(o)
      [] s.namespace = NsMedia -> Ok([o EXCEPT !.media = Some(Client(u, cr))])
      [] s.namespace = NsPtz -> Ok([o EXCEPT !.ptz = Some(Client(u, cr))])
      [] OTHER -> Ok(o)

\* a descriptor outside the base address is left out and the loop goes on
BindServiceSkip(o, s, base, cr, dm) ==
    LET u == UrlParse(s.x_addr)
    IN  IF u = ParseError THEN Err(AddressError)
        ELSE IF ~WithinBase(u, base) THEN Ok(o)
        ELSE Dispatch(o, s, u, cr, dm)

\* lines 46-72: the body of the for loop on the descriptor s
BindService(o, s, base, cr, dm) ==
    LET u == UrlParse(s.x_addr)
    IN  IF u = ParseError THEN Err(AddressError)
        ELSE IF ~WithinBase(u, base) THEN Err(TrustBoundaryError)
        ELSE Dispatch(o, s, u, cr, dm)

\* lines 45-73: one iteration of the for loop
NewService ==
    /\ pc = "loop"
    /\ idx <= Len(services)
    /\ LET r == BindService(out, services[idx], url.val, creds, device_mgmt_uri)
       IN  IF r.ok
           THEN /\ out' = r.val
                /\ idx' = idx + 1
                /\ UNCHANGED <<result, pc>>
           ELSE /\ result' = r
                /\ pc' = "returned"
                /\ UNCHANGED <<out, idx>>
    /\ UNCHANGED <<url, usr, pwd, creds, device_mgmt_uri, services, device,
                   motionVars, inflight, log, panic>>

\* line 75: Ok(out)
NewReturn ==
    /\ pc = "loop"
    /\ idx > Len(services)
    /\ result' = Ok(out)
    /\ pc' = "returned"
    /\ UNCHANGED <<url, usr, pwd, creds, device_mgmt_uri, out, services, idx,
                   device, motionVars, inflight, log, panic>>

\* lines 197-202: the caller unwraps the result; the arguments and the locals
\* of Device::new are gone
Unwrap ==
    /\ pc = "returned"
    /\ IF result.ok
       THEN /\ device' = result.val
            /\ pc' = "idle"
            /\ UNCHANGED panic
       ELSE /\ Panic("called Result::unwrap() on an Err value")
            /\ UNCHANGED device
    /\ url' = None
    /\ usr' = None
    /\ pwd' = None
    /\ creds' = None
    /\ device_mgmt_uri' = <<>>
    /\ out' = NoDevice
    /\ services' = <<>>
    /\ idx' = 1
    /\ result' = NoResult
    /\ log' = <<>>
    /\ UNCHANGED <<motionVars, inflight>>

Bind ==
    \/ NewCreds
    \/ NewBase
    \/ GetServicesSend
    \/ GetServicesOk
    \/ GetServicesErr
    \/ NewService
    \/ NewReturn
    \/ Unwrap

----------------------------------------------------------------------------
(* f64 arithmetic: n/d in lowest terms with d > 0; d = 0 for +inf (n = 1), *)
(* -inf (n = -1) and NaN (n = 0)                                            *)

Abs(a) == IF a < 0 THEN -a ELSE a
Sign(a) == IF a < 0 THEN -1 ELSE IF a > 0 THEN 1 ELSE 0

RECURSIVE Gcd(_, _)
Gcd(a, b) == IF b = 0 THEN a ELSE Gcd(b, a % b)

\* a as f64 / b as f64; the divisor of a and b is taken from b and a % |b|,
\* which are not negative for any a of the i32 range
FDiv(a, b) ==
    IF b = 0 THEN [n |-> Sign(a), d |-> 0]
    ELSE LET g == Gcd(Abs(b), a % Abs(b))
         IN  [n |-> (Sign(b) * a) \div g, d |-> Abs(b) \div g]

FNeg(f) == [n |-> -f.n, d |-> f.d]
FZero == [n |-> 0, d |-> 1]
IsNaN(f) == f.d = 0 /\ f.n = 0
IsInf(f) == f.d = 0 /\ f.n # 0

\* the largest r in lo..hi with r * r <= n, given lo * lo <= n
RECURSIVE IsqrtIn(_, _, _)
IsqrtIn(n, lo, hi) ==
    IF lo >= hi THEN lo
    ELSE LET mid == (lo + hi + 1) \div 2
         IN  IF mid * mid <= n THEN IsqrtIn(n, mid, hi) ELSE IsqrtIn(n, lo, mid - 1)

\* floor of the square root of n; 46340 is the largest integer whose square
\* the model's integers hold
Isqrt(n) == IsqrtIn(n, 0, IF n < 46340 THEN n ELSE 46340)

U64Max == 2147483647   \* u64::MAX, as the largest integer the model's integers hold
MsPerUnit == 500
TimeoutSeconds == 5

\* 500.0 * |f| is beyond u64::MAX as the model holds it
Huge(f) == Abs(f.n) \div f.d > U64Max \div MsPerUnit

\* 500.0 * (pan + tilt) in place of the magnitude; the cast takes a negative to 0
DurationOfSum(p, t) ==
    IF IsNaN(p) \/ IsNaN(t) THEN 0
    ELSE IF IsInf(p) \/ IsInf(t) THEN U64Max
    ELSE IF Huge(t) THEN (IF t.n > 0 THEN U64Max ELSE 0)
    ELSE IF Huge(p) THEN (IF p.n > 0 THEN U64Max ELSE 0)
    ELSE LET num == p.n * t.d + t.n * p.d
             den == p.d * t.d
         IN  IF num <= 0 THEN 0 ELSE (MsPerUnit * num) \div den

\* line 185: (500.0 * (pan * pan + tilt * tilt).sqrt()) as u64; the cast
\* truncates, takes NaN to 0 and saturates at u64::MAX
Duration(p, t) ==
    IF IsNaN(p) \/ IsNaN(t) THEN 0
    ELSE IF IsInf(p) \/ IsInf(t) THEN U64Max
    ELSE IF Huge(p) \/ Huge(t) THEN U64Max
    ELSE LET num == p.n * p.n * t.d * t.d + t.n * t.n * p.d * p.d
             den == p.d * p.d * t.d * t.d
         IN  Isqrt((MsPerUnit * MsPerUnit * num) \div den)

I32Min == -2147483647 - 1   \* i32::MIN

\* -y on an i32 in a build without overflow checks: -i32::MIN is i32::MIN
WrappingNeg(y) == IF y = I32Min THEN I32Min ELSE -y

\* x divided by the height of the rectangle
RecenterPanByHeight(a) == FDiv(a.x, a.rect_height)

\* lines 175-177: the locals pan, tilt and zoom of translate_recenter
RecenterPan(a) == FDiv(a.x, a.rect_width)
RecenterTilt(a) == FDiv(WrappingNeg(a.y), a.rect_height)
RecenterZoom == FZero

----------------------------------------------------------------------------
(* Inputs of the motion operations and answers of the device *)

Coords == (-MaxCoord)..MaxCoord
Dims == 0..MaxDim
\* y is small or i32::MIN; with i32::MIN x is 0 and the heights are the even
\* ones, for which the model's integers hold 2^31 / rect_height
RecenterArgs ==
    [x : Coords, y : Coords, rect_width : Dims, rect_height : Dims]
        \cup [x : {0}, y : {I32Min}, rect_width : Dims,
              rect_height : {h \in Dims : h % 2 = 0}]
NoArgs == [x |-> 0, y |-> 0, rect_width |-> 0, rect_height |-> 0]

Floats == {FDiv(a, 2) : a \in {-1, 0, 1}}

Tokens == {"t1", "t2"}
\* the get_profiles responses the device may give: a token names one profile
ProfileLists ==
    {ps \in SeqsUpTo(Tokens, MaxProfiles) :
        \A i, j \in 1..Len(ps) : ps[i] = ps[j] => i = j}

----------------------------------------------------------------------------
(* The requests *)

\* the move with no timeout: the device moves until it is told to stop
ContinuousMoveNoTimeout(tok, p, t, z) ==
    [profile_token |-> tok,
     velocity |-> [pan_tilt |-> Some([x |-> p, y |-> t, space |-> None]),
                   zoom |-> Some([x |-> z, space |-> None])],
     timeout |-> None]

\* lines 93-112
ContinuousMove(tok, p, t, z) ==
    [profile_token |-> tok,
     velocity |-> [pan_tilt |-> Some([x |-> p, y |-> t, space |-> None]),
                   zoom |-> Some([x |-> z, space |-> None])],
     timeout |-> Some(TimeoutSeconds)]

\* lines 125-129
Stop(tok) == [profile_token |-> tok, pan_tilt |-> Some(TRUE), zoom |-> Some(TRUE)]

\* the translation with the space tag of the zoom vector left out
RelativeMoveUntagged(tok, p, t, z) ==
    [profile_token |-> tok,
     translation |->
        [pan_tilt |-> Some([x |-> p, y |-> t,
                            space |-> Some("relative_pan_tilt_translation_space")]),
         zoom |-> Some([x |-> z, space |-> None])],
     speed |-> None]

\* lines 140-159
RelativeMove(tok, p, t, z) ==
    [profile_token |-> tok,
     translation |->
        [pan_tilt |-> Some([x |-> p, y |-> t,
                            space |-> Some("relative_pan_tilt_translation_space")]),
         zoom |-> Some([x |-> z, space |-> Some("relative_zoom_translation_space")])],
     speed |-> None]

\* the command a send_* function sends on the ptz client
Command(f, tok, p, t, z) ==
    CASE f = "continuous" -> Call("continuous_move", device.ptz.val, ContinuousMove(tok, p, t, z))
      [] f = "stop" -> Call("stop", device.ptz.val, Stop(tok))
      [] f = "relative" -> Call("relative_move", device.ptz.val, RelativeMove(tok, p, t, z))

Timer(ms) == [op |-> "timer", to |-> <<>>, req |-> [ms |-> ms]]

----------------------------------------------------------------------------
(* The motion operations *)

Enter(o, f, a, p, t, z) ==
    /\ pc = "idle"
    /\ op' = o
    /\ fn' = f
    /\ args' = a
    /\ pan' = p
    /\ tilt' = t
    /\ zoom' = z
    /\ time' = 0
    /\ profile_token' = ""
    /\ response' = <<>>
    /\ log' = <<>>
    /\ pc' = "send_entry"
    /\ UNCHANGED <<bindVars, device, inflight, panic>>

\* lines 167-184: translate_recenter up to its call of send_continuous_ptz
\* with pan, -tilt and zoom
SentTilt(a) == FNeg(RecenterTilt(a))

CallRecenter ==
    \E a \in RecenterArgs :
        Enter("recenter", "continuous", a, RecenterPan(a), SentTilt(a), RecenterZoom)

\* line 176 in a build with overflow checks: -y panics on i32::MIN
RecenterNegOverflow ==
    /\ pc = "idle"
    /\ \E a \in RecenterArgs :
          /\ a.y = I32Min
          /\ op' = "recenter"
          /\ args' = a
    /\ Panic("attempt to negate with overflow")
    /\ UNCHANGED <<bindVars, device, fn, pan, tilt, zoom, time, profile_token, response,
                   inflight, log>>

\* line 88: the caller calls send_continuous_ptz
CallContinuous ==
    \E p \in Floats, t \in Floats :
        Enter("continuous", "continuous", NoArgs, p, t, FZero)

\* line 119: the caller calls send_stop_ptz
CallStop == Enter("stop", "stop", NoArgs, FZero, FZero, FZero)

\* line 137: the caller calls send_relative_ptz
CallRelative ==
    \E p \in Floats, t \in Floats :
        Enter("relative", "relative", NoArgs, p, t, FZero)

\* lines 89, 120, 138: if let Some(ref ptz) = device.ptz fails, the function returns
SendSkip ==
    /\ pc = "send_entry"
    /\ ~device.ptz.some
    /\ pc' = "send_exit"
    /\ UNCHANGED <<bindVars, device, motionVars, inflight, log, panic>>

\* line 80: device.media.as_ref().unwrap() on a Device without media client
GetProfilesNoMedia ==
    /\ pc = "send_entry"
    /\ device.ptz.some
    /\ ~device.media.some
    /\ Panic("called Option::unwrap() on a None value")
    /\ UNCHANGED <<bindVars, device, motionVars, inflight, log>>

\* lines 80-81: get_profiles is sent on the media client
GetProfilesSend ==
    /\ pc = "send_entry"
    /\ device.ptz.some
    /\ device.media.some
    /\ LET c == Call("get_profiles", device.media.val, NoRequest)
       IN  /\ inflight' = inflight \cup {c}
           /\ log' = Append(log, Event("send", c))
    /\ pc' = "profiles_wait"
    /\ UNCHANGED <<bindVars, device, motionVars, panic>>

\* the token of the last profile of the response
LastToken(profiles) == profiles[Len(profiles)]

\* the token get_profile_token returns for a non-empty response
FirstToken(profiles) == profiles[1]

\* lines 82-85: the response arrives, the first profile's token is copied
GetProfilesOk ==
    /\ pc = "profiles_wait"
    /\ \E c \in inflight, profiles \in ProfileLists :
          /\ c.op = "get_profiles"
          /\ profiles # <<>>
          /\ inflight' = inflight \ {c}
          /\ log' = Append(log, Event("ok", c))
          /\ response' = profiles
          /\ profile_token' = FirstToken(profiles)
    /\ pc' = "command"
    /\ UNCHANGED <<bindVars, device, op, fn, args, pan, tilt, zoom, time, panic>>

\* line 84: .profiles[0] on an empty list
GetProfilesEmpty ==
    /\ pc = "profiles_wait"
    /\ \E c \in inflight :
          /\ c.op = "get_profiles"
          /\ inflight' = inflight \ {c}
          /\ log' = Append(log, Event("ok", c))
    /\ response' = <<>>
    /\ Panic("index out of bounds: the len is 0 but the index is 0")
    /\ UNCHANGED <<bindVars, device, op, fn, args, pan, tilt, zoom, time, profile_token>>

\* the error of get_profiles is swallowed and the call made again
GetProfilesErrRetry ==
    /\ pc = "profiles_wait"
    /\ \E c \in inflight :
          /\ c.op = "get_profiles"
          /\ inflight' = inflight \ {c}
          /\ log' = Append(log, Event("err", c))
    /\ pc' = "send_entry"
    /\ UNCHANGED <<bindVars, device, motionVars, panic>>

\* line 83: unwrap on the error of get_profiles
GetProfilesErr ==
    /\ pc = "profiles_wait"
    /\ \E c \in inflight :
          /\ c.op = "get_profiles"
          /\ inflight' = inflight \ {c}
          /\ log' = Append(log, Event("err", c))
    /\ Panic("called Result::unwrap() on an Err value")
    /\ UNCHANGED <<bindVars, device, motionVars>>

\* lines 106-113, 123-130, 153-160: the command is sent on the ptz client
CommandSend ==
    /\ pc = "command"
    /\ LET c == Command(fn, profile_token, pan, tilt, zoom)
       IN  /\ inflight' = inflight \cup {c}
           /\ log' = Append(log, Event("send", c))
    /\ response' = <<>>
    /\ pc' = "command_wait"
    /\ UNCHANGED <<bindVars, device, op, fn, args, pan, tilt, zoom, time, profile_token,
                   panic>>

\* lines 114-115, 131-132, 161-162: the device acknowledges
CommandOk ==
    /\ pc = "command_wait"
    /\ \E c \in inflight :
          /\ inflight' = inflight \ {c}
          /\ log' = Append(log, Event("ok", c))
    /\ pc' = "send_exit"
    /\ UNCHANGED <<bindVars, device, motionVars, panic>>

\* lines 114-115, 131-132, 161-162: unwrap on the error of the command
CommandErr ==
    /\ pc = "command_wait"
    /\ \E c \in inflight :
          /\ inflight' = inflight \ {c}
          /\ log' = Append(log, Event("err", c))
    /\ Panic("called Result::unwrap() on an Err value")
    /\ UNCHANGED <<bindVars, device, motionVars>>

\* translate_recenter returns after the move, with no sleep and no stop
RecenterSleepNoStop ==
    /\ pc = "send_exit"
    /\ op = "recenter"
    /\ fn = "continuous"
    /\ time' = Duration(RecenterPan(args), RecenterTilt(args))
    /\ pc' = "done"
    /\ UNCHANGED <<bindVars, device, op, fn, args, pan, tilt, zoom, profile_token,
                   response, inflight, log, panic>>

\* lines 185-186: send_continuous_ptz has returned to translate_recenter,
\* which computes time and starts to sleep
RecenterSleep ==
    /\ pc = "send_exit"
    /\ op = "recenter"
    /\ fn = "continuous"
    /\ time' = Duration(RecenterPan(args), RecenterTilt(args))
    /\ log' = Append(log, Event("start", Timer(time')))
    /\ pc' = "sleep"
    /\ UNCHANGED <<bindVars, device, op, fn, args, pan, tilt, zoom, profile_token,
                   response, inflight, panic>>

\* the stop reuses the token of the move instead of fetching the profiles again
RecenterWakeKeepToken ==
    /\ pc = "sleep"
    /\ log' = Append(log, Event("fire", Timer(time)))
    /\ fn' = "stop"
    /\ pc' = IF device.ptz.some THEN "command" ELSE "send_exit"
    /\ UNCHANGED <<bindVars, device, op, args, pan, tilt, zoom, time, profile_token,
                   response, inflight, panic>>

\* lines 186-187: the timer fires and translate_recenter calls send_stop_ptz
RecenterWake ==
    /\ pc = "sleep"
    /\ log' = Append(log, Event("fire", Timer(time)))
    /\ fn' = "stop"
    /\ pc' = "send_entry"
    /\ UNCHANGED <<bindVars, device, op, args, pan, tilt, zoom, time, profile_token,
                   response, inflight, panic>>

\* lines 117, 135, 165, 191-192: the operation returns to the caller
Return ==
    /\ pc = "send_exit"
    /\ ~(op = "recenter" /\ fn = "continuous")
    /\ pc' = "done"
    /\ UNCHANGED <<bindVars, device, motionVars, inflight, log, panic>>

\* the caller goes on: the arguments and the locals of the operation are gone
Drop ==
    /\ pc = "done"
    /\ op' = "none"
    /\ fn' = "none"
    /\ args' = NoArgs
    /\ pan' = FZero
    /\ tilt' = FZero
    /\ zoom' = FZero
    /\ time' = 0
    /\ profile_token' = ""
    /\ response' = <<>>
    /\ log' = <<>>
    /\ pc' = "idle"
    /\ UNCHANGED <<bindVars, device, inflight, panic>>

Calls ==
    \/ CallRecenter
    \/ RecenterNegOverflow
    \/ CallContinuous
    \/ CallStop
    \/ CallRelative

\* the steps of an operation under way
Progress ==
    \/ SendSkip
    \/ GetProfilesNoMedia
    \/ GetProfilesSend
    \/ GetProfilesOk
    \/ GetProfilesEmpty
    \/ GetProfilesErr
    \/ CommandSend
    \/ CommandOk
    \/ CommandErr
    \/ RecenterSleep
    \/ RecenterWake
    \/ Return

Motion == Calls \/ Progress \/ Drop

Next == Bind \/ Motion

Spec == Init /\ [][Next]_vars

----------------------------------------------------------------------------
(* Properties of Device::new *)

\* Device::new has returned after it received a discovery response
BindEnded == pc = "returned" /\ url.some

Parsed(s) == UrlParse(s.x_addr)
Parses(s) == Parsed(s) # ParseError
\* the address parses and is not prefixed by the base address
Outside(s) == Parses(s) /\ ~StartsWith(Parsed(s), url.val)
\* a device management descriptor whose advertised address is not the endpoint
Mismatch(s) == s.namespace = NsDevice /\ s.x_addr # device_mgmt_uri
\* the descriptor fails one of the checks of the loop
Fails(s) == ~Parses(s) \/ Outside(s) \/ Mismatch(s)
\* index of the first descriptor that fails a check, 0 when none does
FirstFailing ==
    IF \E i \in 1..Len(services) : Fails(services[i])
    THEN CHOOSE i \in 1..Len(services) :
            /\ Fails(services[i])
            /\ \A j \in 1..(i - 1) : ~Fails(services[j])
    ELSE 0

WithNamespace(ns) == {i \in 1..Len(services) : services[i].namespace = ns}
Max(S) == CHOOSE i \in S : \A j \in S : j <= i
Min(S) == CHOOSE i \in S : \A j \in S : i <= j

\* C1 as stated: a Session is returned only if every descriptor's parsed
\* address starts with the base address, and a response with a descriptor
\* whose address is not prefixed by the base address makes Device::new
\* return the trust boundary error.
C1_TrustErrorWheneverOutside ==
    BindEnded =>
        /\ result.ok =>
              \A i \in 1..Len(services) : Parses(services[i]) /\ ~Outside(services[i])
        /\ (\E i \in 1..Len(services) : Outside(services[i])) =>
              result = Err(TrustBoundaryError)

\* C1 amended: a Session is returned only if every descriptor's parsed
\* address starts with the base address; a response with a descriptor whose
\* address is not prefixed by the base address makes Device::new return an
\* error, which is the trust boundary error exactly when the first descriptor
\* that fails a check is one whose address is not prefixed by the base address.
C1_FailsWheneverOutside ==
    BindEnded =>
        /\ result.ok =>
              \A i \in 1..Len(services) : Parses(services[i]) /\ ~Outside(services[i])
        /\ (\E i \in 1..Len(services) : Outside(services[i])) =>
              /\ ~result.ok
              /\ result = Err(TrustBoundaryError) <=> Outside(services[FirstFailing])

C1_Witness ==
    /\ BindEnded
    /\ Len(services) = 2
    /\ ~Fails(services[1])
    /\ Outside(services[2])
    /\ result = Err(TrustBoundaryError)

\* C2: when Device::new returns a Session, it has a ptz client iff some
\* descriptor has the PTZ namespace and a media client iff some descriptor has
\* the media namespace.
C2_ClientsIffAdvertised ==
    (BindEnded /\ result.ok) =>
        /\ result.val.ptz.some <=> Cardinality(WithNamespace(NsPtz)) >= 1
        /\ result.val.media.some <=> Cardinality(WithNamespace(NsMedia)) >= 1

C2_Witness ==
    /\ BindEnded
    /\ result.ok
    /\ Len(services) = 2
    /\ Cardinality(WithNamespace(NsMedia)) = 1
    /\ Cardinality(WithNamespace(NsPtz)) = 0
    /\ result.val.media.some
    /\ ~result.val.ptz.some

\* the response has two descriptors of namespace ns at different addresses
Duplicated(ns) ==
    \E i, j \in WithNamespace(ns) : Parsed(services[i]) # Parsed(services[j])

\* C3 as stated: with two or more PTZ (media) descriptors at different
\* addresses, the ptz (media) client of the Session is bound to the address of
\* the first of them.
C3_FirstMatchWins ==
    (BindEnded /\ result.ok) =>
        /\ Duplicated(NsPtz) =>
              result.val.ptz.val.uri = Parsed(services[Min(WithNamespace(NsPtz))])
        /\ Duplicated(NsMedia) =>
              result.val.media.val.uri = Parsed(services[Min(WithNamespace(NsMedia))])

\* C3 amended: with two or more PTZ (media) descriptors at different
\* addresses, the ptz (media) client of the Session is bound to the address of
\* the last of them.
C3_LastMatchWins ==
    (BindEnded /\ result.ok) =>
        /\ Duplicated(NsPtz) =>
              result.val.ptz.val.uri = Parsed(services[Max(WithNamespace(NsPtz))])
        /\ Duplicated(NsMedia) =>
              result.val.media.val.uri = Parsed(services[Max(WithNamespace(NsMedia))])

C3_Witness ==
    /\ BindEnded
    /\ result.ok
    /\ Duplicated(NsPtz)
    /\ result.val.ptz.val.uri = Parsed(services[2])
    /\ result.val.ptz.val.uri # Parsed(services[1])

\* C4 as stated: a device management descriptor whose address differs from
\* the device management endpoint makes Device::new return the consistency
\* error.
C4_ConsistencyErrorWheneverMismatch ==
    (BindEnded /\ \E i \in 1..Len(services) : Mismatch(services[i])) =>
        result = Err(ConsistencyError)

\* C4 amended: a device management descriptor whose address differs from the
\* device management endpoint makes Device::new return an error, which is the
\* consistency error exactly when the first descriptor that fails a check is
\* such a descriptor and its address parses and is prefixed by the base address.
C4_FailsWheneverMismatch ==
    (BindEnded /\ \E i \in 1..Len(services) : Mismatch(services[i])) =>
        /\ ~result.ok
        /\ result = Err(ConsistencyError) <=>
              LET s == services[FirstFailing]
              IN  Mismatch(s) /\ Parses(s) /\ ~Outside(s)

C4_Witness ==
    /\ BindEnded
    /\ Len(services) = 2
    /\ ~Fails(services[1])
    /\ Mismatch(services[2])
    /\ Parsed(services[2]) = device_mgmt_uri
    /\ result = Err(ConsistencyError)

\* Device::new has ended, by a return or by a panic
NewEnded == pc = "returned" \/ (pc = "panicked" /\ op = "none" /\ device = NoDevice)

\* C5: with exactly one of username and password, Device::new returns an
\* error to the caller, and no remote call has been made.
C5_ConfigErrorReturned ==
    (NewEnded /\ usr.some # pwd.some) =>
        /\ ~result.ok
        /\ result # NoResult
        /\ log = <<>>

\* a descriptor of unknown namespace whose address parses and is prefixed by
\* the base address
Ignorable(s) ==
    /\ s.namespace \notin {NsDevice, NsMedia, NsPtz}
    /\ Parses(s)
    /\ ~Outside(s)

\* C10: the iteration of the loop on a descriptor of unknown namespace whose
\* address parses and is prefixed by the base address returns no error and
\* leaves the clients of the Device under construction as they are.
C10_UnknownNamespaceIgnored ==
    [][(pc = "loop" /\ idx <= Len(services) /\ Ignorable(services[idx])) =>
          (pc' = "loop" /\ idx' = idx + 1 /\ out' = out /\ result' = result)]_vars

C10_Witness ==
    /\ BindEnded
    /\ result.ok
    /\ Len(services) = 2
    /\ services[1].namespace = NsPtz
    /\ Ignorable(services[2])
    /\ result.val.ptz.some

----------------------------------------------------------------------------
(* Properties of the motion operations *)

Sent(name) == \E i \in 1..Len(log) : log[i].ev = "send" /\ log[i].call.op = name
Sends(name) == {i \in 1..Len(log) : log[i].ev = "send" /\ log[i].call.op = name}

\* translate_recenter has sent the continuous move
MoveIssued == op = "recenter" /\ Sent("continuous_move")
StopSent == Sent("stop")

\* the last answer was an error, or a profile list with no profile
AnswerFailed ==
    /\ log # <<>>
    /\ \/ log[Len(log)].ev = "err"
       \/ /\ log[Len(log)] = Event("ok", Call("get_profiles", device.media.val, NoRequest))
          /\ panic = "index out of bounds: the len is 0 but the index is 0"

Step(e) == <<IF e.ev \in {"ok", "err"} THEN "answer" ELSE e.ev, e.call.op>>
Steps == [i \in 1..Len(log) |-> Step(log[i])]

RecenterOrder ==
    << <<"send", "get_profiles">>, <<"answer", "get_profiles">>,
       <<"send", "continuous_move">>, <<"answer", "continuous_move">>,
       <<"start", "timer">>, <<"fire", "timer">>,
       <<"send", "get_profiles">>, <<"answer", "get_profiles">>,
       <<"send", "stop">>, <<"answer", "stop">> >>

SleepOnly == << <<"start", "timer">>, <<"fire", "timer">> >>

\* C7: in translate_recenter the steps taken so far are a prefix of
\* get_profiles, continuous_move, sleep, get_profiles, stop, each call
\* answered before the next step starts (of the sleep alone on a Device
\* without ptz client); at most one remote call is outstanding, it is the
\* latest step, and none is outstanding during the sleep.
C7_Sequential ==
    op = "recenter" =>
        /\ Cardinality(inflight) <= 1
        /\ StartsWith(IF device.ptz.some THEN RecenterOrder ELSE SleepOnly, Steps)
        /\ \A c \in inflight : log # <<>> /\ log[Len(log)] = Event("send", c)
        /\ pc = "sleep" => inflight = {}

C7_Witness ==
    /\ op = "recenter"
    /\ pc = "done"
    /\ Steps = RecenterOrder

\* pan^2 + tilt^2 of a recenter request: n/d, d = 0 for NaN (n = 0) and for +inf
\* or a magnitude whose time is u64::MAX (n = 1)
MagSq(a) ==
    LET p == RecenterPan(a)
        t == RecenterTilt(a)
    IN  IF IsNaN(p) \/ IsNaN(t) THEN [n |-> 0, d |-> 0]
        ELSE IF IsInf(p) \/ IsInf(t) \/ Huge(p) \/ Huge(t) THEN [n |-> 1, d |-> 0]
        ELSE [n |-> p.n * p.n * t.d * t.d + t.n * t.n * p.d * p.d,
              d |-> p.d * p.d * t.d * t.d]

\* the magnitude ma is defined and at most mb
MagLE(ma, mb) ==
    /\ ~IsNaN(ma)
    /\ ~IsNaN(mb)
    /\ IF mb.d = 0 THEN TRUE
       ELSE IF ma.d = 0 THEN FALSE
       ELSE ma.n * mb.d <= mb.n * ma.d

\* magnitude and time to sleep of every recenter request
Delays ==
    { [mag |-> MagSq(a), ms |-> Duration(RecenterPan(a), RecenterTilt(a))] :
        a \in RecenterArgs }

AtCentre(a) == a.x = 0 /\ a.y = 0 /\ a.rect_width # 0 /\ a.rect_height # 0

\* C8: the time translate_recenter sleeps is not negative, is at most the
\* time of every request of at least the same magnitude, and is 0 for x = 0
\* and y = 0 with non-zero width and height; in that case, on a Device with
\* ptz client, an execution that returns has sent the move, slept 0 ms and
\* sent the stop.
C8_DelayMonotone ==
    /\ (op = "recenter" /\ pc = "sleep") =>
          /\ time >= 0
          /\ \A e \in Delays : MagLE(MagSq(args), e.mag) => time <= e.ms
          /\ AtCentre(args) => time = 0
    /\ (op = "recenter" /\ pc = "done" /\ AtCentre(args) /\ device.ptz.some) =>
          /\ Steps = RecenterOrder
          /\ log[5] = Event("start", Timer(0))

C8_Witness ==
    /\ op = "recenter"
    /\ pc = "done"
    /\ AtCentre(args)
    /\ time = 0
    /\ Sent("continuous_move")
    /\ StopSent

\* C9: an error answer is the last thing the operation (Device::new or a
\* motion operation) sees: no call follows it and the flow has panicked; and
\* no call is sent twice, get_profiles being sent once per send_* function.
C9_NoCallAfterFailure ==
    /\ \A i \in 1..Len(log) :
          log[i].ev = "err" => (i = Len(log) /\ pc = "panicked" /\ inflight = {})
    /\ \A name \in {"get_services", "continuous_move", "stop", "relative_move"} :
          Cardinality(Sends(name)) <= 1
    /\ Cardinality(Sends("get_profiles")) <= (IF op = "recenter" THEN 2 ELSE 1)

C9_Witness ==
    /\ op = "recenter"
    /\ pc = "panicked"
    /\ Sent("continuous_move")
    /\ log[Len(log)].ev = "err"
    /\ log[Len(log)].call.op = "get_profiles"

\* the name of the command the send_* function f sends
CommandOp(f) ==
    CASE f = "continuous" -> "continuous_move"
      [] f = "stop" -> "stop"
      [] f = "relative" -> "relative_move"
      [] OTHER -> "none"

\* the latest event is an answer to get_profiles
ProfilesAnswered ==
    /\ log # <<>>
    /\ log[Len(log)].ev = "ok"
    /\ log[Len(log)].call.op = "get_profiles"

\* C11: when get_profiles answers a list with no profile, the flow has not
\* panicked (the failure is an error the caller can see) and the send_*
\* function that asked for the token has not sent its command.
C11_NoProfileErrorSurfaced ==
    (ProfilesAnswered /\ response = <<>>) =>
        /\ pc # "panicked"
        /\ panic = ""
        /\ ~Sent(CommandOp(fn))

\* the requests sent since the operation started
Requests(name) == {log[i].call.req : i \in Sends(name)}

\* C12: every relative_move request sent has a translation whose pan_tilt
\* and zoom vectors are present with their space set (to the relative
\* pan/tilt and the relative zoom translation space) and has no speed; every
\* continuous_move request sent has a velocity whose pan_tilt and zoom vectors
\* are present with no space.
C12_SpaceTags ==
    /\ \A r \in Requests("relative_move") :
          /\ r.translation.pan_tilt.some
          /\ r.translation.pan_tilt.val.space = Some("relative_pan_tilt_translation_space")
          /\ r.translation.zoom.some
          /\ r.translation.zoom.val.space = Some("relative_zoom_translation_space")
          /\ r.speed = None
    /\ \A r \in Requests("continuous_move") :
          /\ r.velocity.pan_tilt.some
          /\ r.velocity.pan_tilt.val.space = None
          /\ r.velocity.zoom.some
          /\ r.velocity.zoom.val.space = None

C12_Witness ==
    /\ op = "relative"
    /\ pc = "done"
    /\ Cardinality(Requests("relative_move")) = 1

PtzCommands == {"continuous_move", "stop", "relative_move"}

\* a send_* function was entered on a Device with ptz client and no media
\* client and has taken its first step
EnteredWithoutMedia ==
    /\ op # "none"
    /\ pc \notin {"idle", "send_entry"}
    /\ device.ptz.some
    /\ ~device.media.some

\* C13: a send_* function entered on a Device with ptz client and no media
\* client sends no PTZ command, and the absent media client is found by a
\* check made before get_profile_token, not by the unwrap inside it: the flow
\* does not panic on the absent media client.
C13_MediaChecked ==
    EnteredWithoutMedia =>
        /\ \A name \in PtzCommands : ~Sent(name)
        /\ panic # "called Option::unwrap() on a None value"

\* the error of a descriptor that fails a check, the checks taken in the
\* order address parse, base prefix, device management equality
ErrorOf(s) ==
    IF ~Parses(s) THEN AddressError
    ELSE IF Outside(s) THEN TrustBoundaryError
    ELSE ConsistencyError

\* C14: the loop of Device::new goes through the descriptors in response
\* order, every descriptor before its position having passed the checks;
\* when Device::new returns after a response in which a descriptor fails a
\* check, the loop stands at the first such descriptor, the result is the
\* error of that descriptor and no Device; it is Ok only when the loop went
\* past the last descriptor.
C14_AbortsAtFirstFailure ==
    /\ (pc = "loop" \/ BindEnded) =>
          /\ idx \in 1..(Len(services) + 1)
          /\ \A j \in 1..(idx - 1) : ~Fails(services[j])
    /\ (BindEnded /\ FirstFailing # 0) =>
          /\ idx = FirstFailing
          /\ result = Err(ErrorOf(services[FirstFailing]))
    /\ (BindEnded /\ result.ok) =>
          /\ FirstFailing = 0
          /\ idx = Len(services) + 1

C14_Witness ==
    /\ BindEnded
    /\ Len(services) = 2
    /\ Outside(services[1])
    /\ Mismatch(services[2])
    /\ ~Outside(services[2])
    /\ idx = 1
    /\ result = Err(TrustBoundaryError)

\* the positions of the log where a PTZ command was sent
CommandSends == {i \in 1..Len(log) : log[i].ev = "send" /\ log[i].call.op \in PtzCommands}

\* C15: every PTZ command in the log comes right after the answer to a
\* get_profiles call that was sent after the previous step of the operation,
\* so every send_* function makes its own call and has its answer before it
\* sends; the token a send_* function holds when it is about to send is the
\* first token of the response to that call, and the command it has
\* outstanding carries that token; and a translate_recenter that returns
\* on a Device with ptz client has sent get_profiles exactly twice, the
\* second time after the sleep and before the stop.
C15_TokenFetchedPerCommand ==
    /\ \A i \in CommandSends :
          /\ i >= 3
          /\ log[i - 1].ev = "ok" /\ log[i - 1].call.op = "get_profiles"
          /\ log[i - 2].ev = "send" /\ log[i - 2].call.op = "get_profiles"
    /\ pc = "command" =>
          /\ ProfilesAnswered
          /\ response # <<>>
          /\ profile_token = response[1]
    /\ pc = "command_wait" =>
          /\ Len(log) \in CommandSends
          /\ log[Len(log)].call.req.profile_token = profile_token
    /\ (op = "recenter" /\ pc = "done" /\ device.ptz.some) =>
          /\ Cardinality(Sends("get_profiles")) = 2
          /\ \E i \in Sends("get_profiles"), j \in Sends("stop") :
                /\ i > 1
                /\ log[i - 1].ev = "fire"
                /\ j = i + 2

C15_Witness ==
    /\ op = "recenter"
    /\ pc = "command_wait"
    /\ fn = "stop"
    /\ \A r \in Requests("continuous_move") : r.profile_token = "t1"
    /\ \E r \in Requests("stop") : r.profile_token = "t2"
    /\ Cardinality(Sends("get_profiles")) = 2

\* translate_recenter was called with non-zero width and height
RecenterInRect == op = "recenter" /\ args.rect_width # 0 /\ args.rect_height # 0

\* C16: in translate_recenter with non-zero width and height, every
\* continuous_move request sent carries pan x / rect_width, zoom 0 and tilt
\* y / rect_height, whose sign is the sign of y, and the time slept is the
\* time of the pan sent and of the tilt sent negated.
C16_TiltSentIsYOverHeight ==
    RecenterInRect =>
        /\ \A r \in Requests("continuous_move") :
              /\ r.velocity.pan_tilt.val.x = FDiv(args.x, args.rect_width)
              /\ r.velocity.pan_tilt.val.y = FDiv(args.y, args.rect_height)
              /\ Sign(r.velocity.pan_tilt.val.y.n) = Sign(args.y)
              /\ r.velocity.zoom.val.x = FZero
        /\ pc = "sleep" => time = Duration(pan, FNeg(tilt))

\* 500 * sqrt((x / width)^2 + (-y / height)^2) in whole milliseconds, for
\* non-zero width and height: the largest ms with
\* ms^2 * width^2 * height^2 <= 500^2 * (x^2 * height^2 + y^2 * width^2),
\* and u64::MAX as the model holds it when 500 * |y / height| is beyond it
SpecDelay(a) ==
    IF Abs(a.y \div a.rect_height) > U64Max \div MsPerUnit THEN U64Max
    ELSE LET num == a.x * a.x * a.rect_height * a.rect_height
                        + a.y * a.y * a.rect_width * a.rect_width
             den == a.rect_width * a.rect_width * a.rect_height * a.rect_height
         IN  Isqrt((MsPerUnit * MsPerUnit * num) \div den)

Example == [x |-> 50, y |-> -50, rect_width |-> 100, rect_height |-> 100]
ExamplePan == RecenterPan(Example)
ExampleTilt == RecenterTilt(Example)
ExampleDuration == Duration(ExamplePan, ExampleTilt)
Half == [n |-> 1, d |-> 2]

\* C17: in translate_recenter with non-zero width and height the time slept
\* between the move and the stop is 500 * sqrt(pan^2 + tilt^2) with
\* pan = x / width and tilt = -y / height, in whole milliseconds; for x = 50,
\* y = -50, width = 100 and height = 100 pan is 0.5, tilt is 0.5 and the time
\* is within a millisecond of 354.
C17_DelayFormula ==
    /\ (RecenterInRect /\ pc = "sleep") => time = SpecDelay(args)
    /\ ExamplePan = Half
    /\ ExampleTilt = Half
    /\ ExampleDuration \in 353..354
    /\ (/\ RecenterInRect
        /\ pc = "sleep"
        /\ RecenterPan(args) = ExamplePan
        /\ RecenterTilt(args) = ExampleTilt) => time \in 353..354

C17_Witness ==
    /\ RecenterInRect
    /\ pc = "sleep"
    /\ RecenterPan(args) = Half
    /\ RecenterTilt(args) = Half
    /\ time = 353
    /\ Sent("continuous_move")
    /\ log[Len(log)] = Event("start", Timer(353))

\* C18: an operation on a Device without ptz client does not panic and makes
\* no remote call; translate_recenter, when it has returned, has slept the
\* time computed from its arguments and done nothing else.
C18_NoPtzNoCalls ==
    (op # "none" /\ ~device.ptz.some) =>
        /\ pc # "panicked"
        /\ inflight = {}
        /\ \A i \in 1..Len(log) : log[i].call.op = "timer"
        /\ (op # "recenter") => log = <<>>
        /\ (op = "recenter" /\ pc = "done") =>
              /\ time = Duration(RecenterPan(args), RecenterTilt(args))
              /\ log = <<Event("start", Timer(time)), Event("fire", Timer(time))>>

\* the target is inside the rectangle: |x| <= width, |y| <= height
Inside(a) ==
    /\ a.rect_width > 0
    /\ a.rect_height > 0
    /\ -a.rect_width <= a.x /\ a.x <= a.rect_width
    /\ -a.rect_height <= a.y /\ a.y <= a.rect_height

\* C19: every continuous_move request sent has a timeout of 5 seconds, and
\* the time translate_recenter sleeps for a target inside the rectangle is at
\* most 707 ms, which is less than the 5000 ms of that timeout.
C19_StopBeforeTimeout ==
    /\ \A r \in Requests("continuous_move") : r.timeout = Some(5)
    /\ (op = "recenter" /\ Inside(args)) =>
          /\ time <= 707
          /\ time < 5 * 1000
          /\ \A i \in 1..Len(log) : log[i].call.op = "timer" => log[i].call.req.ms <= 707

C19_Witness ==
    /\ op = "recenter"
    /\ Inside(args)
    /\ pc = "sleep"
    /\ time = 707
    /\ \E r \in Requests("continuous_move") : r.timeout = Some(5)

\* -y / height, the quotient y / height negated as an f64: no i32 is negated
MinusYOverHeight(a) == FNeg(FDiv(a.y, a.rect_height))

\* C20: translate_recenter called with a non-zero height does not panic on
\* the negation of y, and its tilt is -y / height, for every y, i32::MIN
\* included.
C20_NegationExact ==
    (op = "recenter" /\ args.rect_height # 0) =>
        /\ panic # "attempt to negate with overflow"
        /\ RecenterTilt(args) = MinusYOverHeight(args)
        /\ pc \notin {"idle", "panicked"} => FNeg(tilt) = MinusYOverHeight(args)
====
